---- MODULE Spec2Model ----
(***************************************************************************)
(* Model of the Jolt trait of jolt-core/src/jolt/vm/mod.rs: the per-stage  *)
(* prove/verify operations and the pipeline entry point.                   *)
(*                                                                         *)
(* The Transcript and the RandomTape are modelled by the log of the        *)
(* sub-steps that were handed them (a sub-step that receives `&mut` may    *)
(* operate on it; one that does not receive it cannot).  The memory trace  *)
(* is modelled by its length, the only thing mod.rs reads of it.           *)
(***************************************************************************)
EXTENDS Integers, Sequences, FiniteSets, TLC

\* ---------------------------------------------------------------- bounds
MaxCalls == 3
MaxRows == 1
MaxReads == 3
MaxTs == 3

\* ------------------------------------------------------------- constants
\* const MAX_TRACE_SIZE: usize = 1 << 22;
MAX_TRACE_SIZE == 4194304

\* Trace lengths the caller may pass to prove_memory: small ones and the
\* three lengths around the limit.
TraceLens == {0, 1, MAX_TRACE_SIZE - 1, MAX_TRACE_SIZE, MAX_TRACE_SIZE + 1}

Rows == 0..MaxRows

\* Read-timestamp lists of length <= MaxReads over 0..MaxTs.
TsLists == UNION {[1..n -> 0..MaxTs] : n \in 0..MaxReads}

NoValue == [kind |-> "none"]
Ok == [kind |-> "Ok"]
Err(step) == [kind |-> "Err", from |-> step]
Panic(msg) == [kind |-> "panic", msg |-> msg]

Ops == {"prove", "prove_instruction_lookups", "verify_instruction_lookups",
        "prove_program_code", "verify_program_code", "prove_memory",
        "verify_memory", "prove_r1cs"}

VARIABLES
    pc,                          \* position of the call in progress
    op,                          \* the operation called last
    calls,                       \* number of calls made so far
    transcript,                  \* [prover, verifier]: sub-steps handed the transcript
    random_tape,                 \* sub-steps handed the random tape
    steps,                       \* sub-steps run by the call in progress
    handed,                      \* per operation: sub-steps handed the transcript in its last call
    ended,                       \* operations that have returned or panicked
    args,                        \* arguments of the call in progress
    read_timestamps,             \* prove_memory: local
    timestamp_validity_lookups,  \* prove_memory: local
    surge_ops,                   \* operations passed to Surge::new
    polys,                       \* local: polys / memory / instruction_lookups
    batched_polys,               \* local
    commitments,                 \* local
    proof,                       \* local: the proof built by a prove operation
    mc_result,                   \* verify_memory: result of verify_memory_checking
    surge_result,                \* verify_memory: result of Surge::verify
    surge_type,                  \* [prover, verifier]: the Surge type last instantiated
    result                       \* value returned by the last ended call

vars == <<pc, op, calls, transcript, random_tape, steps, handed, ended,
          args, read_timestamps, timestamp_validity_lookups, surge_ops,
          polys, batched_polys, commitments, proof, mc_result, surge_result,
          surge_type, result>>

locals == <<read_timestamps, timestamp_validity_lookups, surge_ops,
            polys, batched_polys, commitments, proof, mc_result, surge_result>>

\* ------------------------------------------------- who is handed what
\* Sub-steps of mod.rs that receive `transcript`.
HandsTranscript(step) ==
    step \in {"InstructionLookups::prove_lookups", "InstructionLookups::verify",
              "PCPolys::prove_memory_checking", "PCPolys::verify_memory_checking",
              "ReadWriteMemory::new", "ReadWriteMemory::prove_memory_checking",
              "Surge::prove", "ReadWriteMemory::verify_memory_checking",
              "Surge::verify"}

HandsRandomTape_verifier(step) ==
    step \in {"InstructionLookups::prove_lookups", "PCPolys::prove_memory_checking",
              "ReadWriteMemory::prove_memory_checking",
              "ReadWriteMemory::verify_memory_checking"}

\* Sub-steps of mod.rs that receive `random_tape`.
HandsRandomTape(step) ==
    step \in {"InstructionLookups::prove_lookups", "PCPolys::prove_memory_checking",
              "ReadWriteMemory::prove_memory_checking"}

\* The side whose transcript an operation is given.
Side(o) ==
    IF o \in {"verify_instruction_lookups", "verify_program_code", "verify_memory"}
    THEN "verifier" ELSE "prover"

\* fn verify_memory: const MAX_TRACE_SIZE: usize = 1 << 22;
MAX_TRACE_SIZE_verify == 4194304

\* Surge<F, G, Instruction, C, M>
SurgeType(instruction, c, m) ==
    [kind |-> "SurgeType", instruction |-> instruction, C |-> c, M |-> m]

\* prove_memory: <Surge<F, G, SLTUInstruction, 2, MAX_TRACE_SIZE>>
ProveMemorySurgeType == SurgeType("SLTUInstruction", 2, MAX_TRACE_SIZE)

VerifyMemorySurgeType_smallerTable == SurgeType("SLTUInstruction", 2, 1048576)

\* verify_memory: <Surge<F, G, SLTUInstruction, 2, MAX_TRACE_SIZE>>
VerifyMemorySurgeType == SurgeType("SLTUInstruction", 2, MAX_TRACE_SIZE_verify)

\* The Surge type a sub-step is called on.
SurgeTypeOf(step) ==
    IF step = "Surge::prove" THEN ProveMemorySurgeType ELSE VerifyMemorySurgeType

\* Effect of running one sub-step of the call in progress.
RunStep(step) ==
    /\ surge_type' = IF step \in {"Surge::prove", "Surge::verify"}
                     THEN [surge_type EXCEPT ![Side(op)] = SurgeTypeOf(step)]
                     ELSE surge_type
    /\ transcript' = IF HandsTranscript(step)
                     THEN [transcript EXCEPT ![Side(op)] = Append(@, step)]
                     ELSE transcript
    /\ random_tape' = IF HandsRandomTape(step)
                      THEN Append(random_tape, step)
                      ELSE random_tape
    /\ steps' = Append(steps, step)
    /\ handed' = IF HandsTranscript(step)
                 THEN [handed EXCEPT ![op] = Append(@, step)]
                 ELSE handed

NoStep == UNCHANGED <<transcript, random_tape, steps, handed, surge_type>>

\* ------------------------------------------------------------ call / end
CanCall == pc \in {"idle", "done", "panicked"} /\ calls < MaxCalls

\* Entry of operation o: fresh locals, position `first`.
Enter(o, first) ==
    /\ CanCall
    /\ op' = o
    /\ pc' = first
    /\ calls' = calls + 1
    /\ steps' = <<>>
    /\ handed' = [handed EXCEPT ![o] = <<>>]
    /\ ended' = ended \ {o}
    /\ result' = NoValue
    /\ UNCHANGED <<transcript, random_tape, surge_type>>

ClearLocals ==
    /\ read_timestamps' = <<>>
    /\ timestamp_validity_lookups' = <<>>
    /\ surge_ops' = NoValue
    /\ polys' = NoValue
    /\ batched_polys' = NoValue
    /\ commitments' = NoValue
    /\ proof' = NoValue
    /\ mc_result' = NoValue
    /\ surge_result' = NoValue

Return(v) ==
    /\ pc' = "done"
    /\ result' = v
    /\ ended' = ended \cup {op}

Abort(msg) ==
    /\ pc' = "panicked"
    /\ result' = Panic(msg)
    /\ ended' = ended \cup {op}

Init ==
    /\ pc = "idle"
    /\ op = "none"
    /\ calls = 0
    /\ transcript = [prover |-> <<>>, verifier |-> <<>>]
    /\ random_tape = <<>>
    /\ steps = <<>>
    /\ handed = [o \in Ops |-> <<>>]
    /\ ended = {}
    /\ args = NoValue
    /\ read_timestamps = <<>>
    /\ timestamp_validity_lookups = <<>>
    /\ surge_ops = NoValue
    /\ polys = NoValue
    /\ batched_polys = NoValue
    /\ commitments = NoValue
    /\ proof = NoValue
    /\ mc_result = NoValue
    /\ surge_result = NoValue
    /\ surge_type = [prover |-> NoValue, verifier |-> NoValue]
    /\ result = NoValue

\* ------------------------------------------------------------ fn prove()
prove_Call ==
    /\ Enter("prove", "prove_body")
    /\ args' = NoValue
    /\ ClearLocals

\* unimplemented!("todo")
prove ==
    /\ pc = "prove_body"
    /\ Abort("not implemented: todo")
    /\ NoStep
    /\ UNCHANGED <<op, calls, args>>
    /\ UNCHANGED locals

\* ------------------------------------------------------- fn prove_r1cs()
prove_r1cs_Call ==
    /\ Enter("prove_r1cs", "r1cs_body")
    /\ args' = NoValue
    /\ ClearLocals

\* unimplemented!("todo")
prove_r1cs ==
    /\ pc = "r1cs_body"
    /\ Abort("not implemented: todo")
    /\ NoStep
    /\ UNCHANGED <<op, calls, args>>
    /\ UNCHANGED locals

\* ------------------------------------------ opaque values of the callees
\* PCPolys::new_program(program, trace)
NewProgram(program, trace) == [kind |-> "PCPolys", program |-> program, trace |-> trace]

\* InstructionLookups::new(ops)
NewInstructionLookups(ops) == [kind |-> "InstructionLookups", ops |-> ops]

\* ReadWriteMemory::new(memory_trace, memory_size, transcript).0
NewReadWriteMemory(trace_len, memory_size) ==
    [kind |-> "ReadWriteMemory", trace_len |-> trace_len, memory_size |-> memory_size]

\* polys.batch()
Batch(p) == [kind |-> "batched", of |-> p]

\* commit(&batched_polys)
Commit(b) == [kind |-> "commitment", of |-> b]

\* prove_memory_checking(&polys, &batched_polys, &commitments, ..)
MemoryCheckingProofOf(p, b, c) ==
    [kind |-> "MemoryCheckingProof", polys |-> p, batched |-> b, against |-> c]

\* What a verification sub-step may return: Result<(), ProofVerifyError>.
VerifyOutcomes(step) == {Ok, Err(step)}

\* ------------------------------------------ fn prove_instruction_lookups
prove_instruction_lookups_Call ==
    /\ \E ops \in Rows :
         args' = [ops |-> ops]
    /\ Enter("prove_instruction_lookups", "pil_new")
    /\ ClearLocals

\* let instruction_lookups = InstructionLookups::new(ops);
prove_instruction_lookups_new ==
    /\ pc = "pil_new"
    /\ RunStep("InstructionLookups::new")
    /\ polys' = NewInstructionLookups(args.ops)
    /\ pc' = "pil_prove"
    /\ UNCHANGED <<op, calls, args, ended, result, read_timestamps,
                   timestamp_validity_lookups, surge_ops, batched_polys,
                   commitments, proof, mc_result, surge_result>>

\* instruction_lookups.prove_lookups(transcript, random_tape)
prove_instruction_lookups_prove ==
    /\ pc = "pil_prove"
    /\ RunStep("InstructionLookups::prove_lookups")
    /\ proof' = [kind |-> "InstructionLookupsProof", of |-> polys]
    /\ Return([kind |-> "proof", proof |-> proof'])
    /\ UNCHANGED <<op, calls, args, read_timestamps, timestamp_validity_lookups,
                   surge_ops, polys, batched_polys, commitments, mc_result,
                   surge_result>>

\* ----------------------------------------- fn verify_instruction_lookups
verify_instruction_lookups_Call ==
    /\ args' = NoValue
    /\ Enter("verify_instruction_lookups", "vil_verify")
    /\ ClearLocals

\* InstructionLookups::verify(proof, transcript)
verify_instruction_lookups ==
    /\ pc = "vil_verify"
    /\ RunStep("InstructionLookups::verify")
    /\ \E r \in VerifyOutcomes("InstructionLookups::verify") : Return(r)
    /\ UNCHANGED <<op, calls, args>>
    /\ UNCHANGED locals

\* ------------------------------------------------- fn prove_program_code
prove_program_code_Call ==
    /\ \E program \in Rows, trace \in Rows :
         args' = [program |-> program, trace |-> trace]
    /\ Enter("prove_program_code", "ppc_new")
    /\ ClearLocals

\* let polys = PCPolys::new_program(program, trace);
prove_program_code_new ==
    /\ pc = "ppc_new"
    /\ RunStep("PCPolys::new_program")
    /\ polys' = NewProgram(args.program, args.trace)
    /\ pc' = "ppc_batch"
    /\ UNCHANGED <<op, calls, args, ended, result, read_timestamps,
                   timestamp_validity_lookups, surge_ops, batched_polys,
                   commitments, proof, mc_result, surge_result>>

\* let batched_polys = polys.batch();
prove_program_code_batch ==
    /\ pc = "ppc_batch"
    /\ RunStep("PCPolys::batch")
    /\ batched_polys' = Batch(polys)
    /\ pc' = "ppc_commit"
    /\ UNCHANGED <<op, calls, args, ended, result, read_timestamps,
                   timestamp_validity_lookups, surge_ops, polys,
                   commitments, proof, mc_result, surge_result>>

\* let commitments = PCPolys::commit(&batched_polys);
prove_program_code_commit ==
    /\ pc = "ppc_commit"
    /\ RunStep("PCPolys::commit")
    /\ commitments' = Commit(batched_polys)
    /\ pc' = "ppc_prove"
    /\ UNCHANGED <<op, calls, args, ended, result, read_timestamps,
                   timestamp_validity_lookups, surge_ops, polys,
                   batched_polys, proof, mc_result, surge_result>>

ProgramCodeReturn_recommit(pr, c, p) == [kind |-> "proof", proof |-> pr, commitment |-> Commit(p)]

\* The pair returned by prove_program_code.
ProgramCodeReturn(pr, c, p) == [kind |-> "proof", proof |-> pr, commitment |-> c]

\* (polys.prove_memory_checking(&polys, &batched_polys, &commitments,
\*                              transcript, random_tape), commitments)
prove_program_code_prove ==
    /\ pc = "ppc_prove"
    /\ RunStep("PCPolys::prove_memory_checking")
    /\ proof' = MemoryCheckingProofOf(polys, batched_polys, commitments)
    /\ Return(ProgramCodeReturn(proof', commitments, polys))
    /\ UNCHANGED <<op, calls, args, read_timestamps, timestamp_validity_lookups,
                   surge_ops, polys, batched_polys, commitments, mc_result,
                   surge_result>>

\* ------------------------------------------------ fn verify_program_code
verify_program_code_Call ==
    /\ args' = NoValue
    /\ Enter("verify_program_code", "vpc_verify")
    /\ ClearLocals

\* PCPolys::verify_memory_checking(proof, &commitment, transcript)
verify_program_code ==
    /\ pc = "vpc_verify"
    /\ RunStep("PCPolys::verify_memory_checking")
    /\ \E r \in VerifyOutcomes("PCPolys::verify_memory_checking") : Return(r)
    /\ UNCHANGED <<op, calls, args>>
    /\ UNCHANGED locals

\* ------------------------------------------------------- fn prove_memory
prove_memory_Call ==
    /\ \E n \in TraceLens, m \in Rows :
         args' = [memory_trace |-> n, memory_size |-> m]
    /\ Enter("prove_memory", "pm_assert")
    /\ ClearLocals

TraceWithinBound_unchecked(len) == TRUE

\* memory_trace.len() <= MAX_TRACE_SIZE
TraceWithinBound(len) == len <= MAX_TRACE_SIZE

\* assert!(memory_trace.len() <= MAX_TRACE_SIZE);
prove_memory_assert ==
    /\ pc = "pm_assert"
    /\ IF TraceWithinBound(args.memory_trace)
       THEN /\ pc' = "pm_todo"
            /\ UNCHANGED <<result, ended>>
       ELSE Abort("assertion failed: memory_trace.len() <= MAX_TRACE_SIZE")
    /\ NoStep
    /\ UNCHANGED <<op, calls, args>>
    /\ UNCHANGED locals

\* todo!("Load program bytecode into memory");
prove_memory_todo ==
    /\ pc = "pm_todo"
    /\ Abort("not yet implemented: Load program bytecode into memory")
    /\ NoStep
    /\ UNCHANGED <<op, calls, args>>
    /\ UNCHANGED locals

\* ------------- the statements of prove_memory that follow the todo!()
\* let (memory, read_timestamps) = ReadWriteMemory::new(memory_trace, memory_size, transcript);
\* One read timestamp per access at most; their values are the callee's.
prove_memory_new ==
    /\ pc = "pm_new"
    /\ RunStep("ReadWriteMemory::new")
    /\ polys' = NewReadWriteMemory(args.memory_trace, args.memory_size)
    /\ \E ts \in TsLists :
         /\ Len(ts) <= args.memory_trace
         /\ read_timestamps' = ts
    /\ pc' = "pm_batch"
    /\ UNCHANGED <<op, calls, args, ended, result, timestamp_validity_lookups,
                   surge_ops, batched_polys, commitments, proof, mc_result,
                   surge_result>>

\* let batched_polys = memory.batch();
prove_memory_batch ==
    /\ pc = "pm_batch"
    /\ RunStep("ReadWriteMemory::batch")
    /\ batched_polys' = Batch(polys)
    /\ pc' = "pm_commit"
    /\ UNCHANGED <<op, calls, args, ended, result, read_timestamps,
                   timestamp_validity_lookups, surge_ops, polys,
                   commitments, proof, mc_result, surge_result>>

\* let commitments: MemoryCommitment<G> = ReadWriteMemory::commit(&batched_polys);
prove_memory_commit ==
    /\ pc = "pm_commit"
    /\ RunStep("ReadWriteMemory::commit")
    /\ commitments' = Commit(batched_polys)
    /\ pc' = "pm_prove"
    /\ UNCHANGED <<op, calls, args, ended, result, read_timestamps,
                   timestamp_validity_lookups, surge_ops, polys,
                   batched_polys, proof, mc_result, surge_result>>

\* let memory_checking_proof = memory.prove_memory_checking(&memory, &batched_polys,
\*                                 &commitments, transcript, random_tape);
prove_memory_prove ==
    /\ pc = "pm_prove"
    /\ RunStep("ReadWriteMemory::prove_memory_checking")
    /\ proof' = MemoryCheckingProofOf(polys, batched_polys, commitments)
    /\ pc' = "pm_lookups"
    /\ UNCHANGED <<op, calls, args, ended, result, read_timestamps,
                   timestamp_validity_lookups, surge_ops, polys,
                   batched_polys, commitments, mc_result, surge_result>>

\* SLTUInstruction(x, y)
SLTUInstruction(x, y) == [x |-> x, y |-> y]

TimestampValidityLookups_offByOne(ts) ==
    [j \in 1..Len(ts) |-> SLTUInstruction(ts[j], j - 1)]

\* read_timestamps.iter().enumerate()
\*     .map(|(i, &ts)| SLTUInstruction(ts, i as u64 + 1)).collect()
\* The 1-based index j is the 0-based position i = j - 1.
TimestampValidityLookups(ts) ==
    [j \in 1..Len(ts) |-> SLTUInstruction(ts[j], (j - 1) + 1)]

\* let timestamp_validity_lookups: Vec<SLTUInstruction> = ...;
prove_memory_lookups ==
    /\ pc = "pm_lookups"
    /\ timestamp_validity_lookups' = TimestampValidityLookups(read_timestamps)
    /\ pc' = "pm_surge"
    /\ NoStep
    /\ UNCHANGED <<op, calls, args, ended, result, read_timestamps,
                   surge_ops, polys, batched_polys, commitments, proof,
                   mc_result, surge_result>>

\* <Surge<F, G, SLTUInstruction, 2, MAX_TRACE_SIZE>>::new(ops)
SurgeNew(instruction, c, m, ops) ==
    [kind |-> "Surge", instruction |-> instruction, C |-> c, M |-> m, ops |-> ops]

\* let timestamp_validity_proof = <Surge<..>>::new(timestamp_validity_lookups).prove(transcript);
\* (memory_checking_proof, timestamp_validity_proof)
prove_memory_surge ==
    /\ pc = "pm_surge"
    /\ surge_ops' = SurgeNew(ProveMemorySurgeType.instruction, ProveMemorySurgeType.C,
                             ProveMemorySurgeType.M, timestamp_validity_lookups)
    /\ RunStep("Surge::prove")
    /\ Return([kind |-> "proof", proof |-> proof,
               timestamp_validity_proof |-> [kind |-> "SurgeProof", of |-> surge_ops']])
    /\ UNCHANGED <<op, calls, args, read_timestamps, timestamp_validity_lookups,
                   polys, batched_polys, commitments, proof, mc_result,
                   surge_result>>

\* ------------------------------------------------------ fn verify_memory
verify_memory_Call ==
    /\ args' = NoValue
    /\ Enter("verify_memory", "vm_mc")
    /\ ClearLocals

QuestionMark_dropped(r) == FALSE

QuestionMark_inverted(r) == r.kind = "Ok"

\* The `?` operator: an Err is returned to the caller at once.
QuestionMark(r) == r.kind = "Err"

\* ReadWriteMemory::verify_memory_checking(memory_checking_proof, &commitment, transcript)?;
verify_memory_checking ==
    /\ pc = "vm_mc"
    /\ RunStep("ReadWriteMemory::verify_memory_checking")
    /\ \E r \in VerifyOutcomes("ReadWriteMemory::verify_memory_checking") :
         /\ mc_result' = r
         /\ IF QuestionMark(r)
            THEN Return(r)
            ELSE /\ pc' = "vm_surge"
                 /\ UNCHANGED <<result, ended>>
    /\ UNCHANGED <<op, calls, args, read_timestamps, timestamp_validity_lookups,
                   surge_ops, polys, batched_polys, commitments, proof,
                   surge_result>>

\* <Surge<F, G, SLTUInstruction, 2, MAX_TRACE_SIZE>>::verify(timestamp_validity_proof, transcript)
verify_memory_surge ==
    /\ pc = "vm_surge"
    /\ RunStep("Surge::verify")
    /\ \E r \in VerifyOutcomes("Surge::verify") :
         /\ surge_result' = r
         /\ Return(r)
    /\ UNCHANGED <<op, calls, args, read_timestamps, timestamp_validity_lookups,
                   surge_ops, polys, batched_polys, commitments, proof,
                   mc_result>>

\* --------------------------------------------------------- specifications
Next ==
    \/ prove_Call
    \/ prove
    \/ prove_r1cs_Call
    \/ prove_r1cs
    \/ prove_instruction_lookups_Call
    \/ prove_instruction_lookups_new
    \/ prove_instruction_lookups_prove
    \/ verify_instruction_lookups_Call
    \/ verify_instruction_lookups
    \/ prove_program_code_Call
    \/ prove_program_code_new
    \/ prove_program_code_batch
    \/ prove_program_code_commit
    \/ prove_program_code_prove
    \/ verify_program_code_Call
    \/ verify_program_code
    \/ prove_memory_Call
    \/ prove_memory_assert
    \/ prove_memory_todo
    \/ verify_memory_Call
    \/ verify_memory_checking
    \/ verify_memory_surge

Spec == Init /\ [][Next]_vars

\* The statements of prove_memory after line 117, run on their own: the
\* position just past the todo!(), for every trace the assertion lets through.
InitMemoryBody ==
    /\ pc = "pm_new"
    /\ op = "prove_memory"
    /\ calls = 1
    /\ transcript = [prover |-> <<>>, verifier |-> <<>>]
    /\ random_tape = <<>>
    /\ steps = <<>>
    /\ handed = [o \in Ops |-> <<>>]
    /\ ended = {}
    /\ \E n \in TraceLens, m \in Rows :
         /\ TraceWithinBound(n)
         /\ args = [memory_trace |-> n, memory_size |-> m]
    /\ read_timestamps = <<>>
    /\ timestamp_validity_lookups = <<>>
    /\ surge_ops = NoValue
    /\ polys = NoValue
    /\ batched_polys = NoValue
    /\ commitments = NoValue
    /\ proof = NoValue
    /\ mc_result = NoValue
    /\ surge_result = NoValue
    /\ surge_type = [prover |-> NoValue, verifier |-> NoValue]
    /\ result = NoValue

NextMemoryBody ==
    \/ prove_memory_new
    \/ prove_memory_batch
    \/ prove_memory_commit
    \/ prove_memory_prove
    \/ prove_memory_lookups
    \/ prove_memory_surge

SpecMemoryBody == InitMemoryBody /\ [][NextMemoryBody]_vars

\* ================================================================ claims
Ended == pc \in {"done", "panicked"}

\* C1: every stage's prove operation (and the pipeline entry point prove),
\* called with a trace within the size bound, ends normally with a proof
\* (which the matching verify operation then accepts).
C1_RoundTrip ==
    (/\ Ended
     /\ op \in {"prove", "prove_program_code", "prove_memory",
                "prove_instruction_lookups"}
     /\ (op = "prove_memory" => args.memory_trace <= MAX_TRACE_SIZE))
    => result.kind = "proof"

\* C2: prove_memory accepts a trace of exactly 2^22 entries and goes on to
\* build the polynomial set, and rejects a trace of 2^22 + 1 entries with the
\* error kind TraceTooLong before any commitment is computed.
C2_Boundary ==
    (op = "prove_memory" /\ Ended) =>
        /\ (args.memory_trace = MAX_TRACE_SIZE =>
                (Len(steps) > 0 /\ steps[1] = "ReadWriteMemory::new"))
        /\ (args.memory_trace = MAX_TRACE_SIZE + 1 =>
                (result = Err("TraceTooLong") /\ commitments.kind = "none"))

\* A call of prove_memory with a trace longer than 2^22 is in progress.
OversizedCallInProgress ==
    /\ op = "prove_memory"
    /\ ~Ended
    /\ args.memory_trace > MAX_TRACE_SIZE

\* C3: in prove_memory the size check comes first: with a trace longer than
\* 2^22 the call stops at the assertion, no sub-step has run, no polynomial
\* set or commitment exists, and the transcript and the random tape are as
\* they were when the call began.
C3_CheckFirst ==
    /\ []((op = "prove_memory" /\ args.memory_trace > MAX_TRACE_SIZE) =>
            /\ pc \in {"pm_assert", "panicked"}
            /\ steps = <<>>
            /\ handed["prove_memory"] = <<>>
            /\ polys.kind = "none"
            /\ batched_polys.kind = "none"
            /\ commitments.kind = "none")
    /\ [][OversizedCallInProgress =>
            /\ pc' = "panicked"
            /\ result' = Panic("assertion failed: memory_trace.len() <= MAX_TRACE_SIZE")
            /\ transcript' = transcript
            /\ random_tape' = random_tape]_vars

\* C3 witness: an oversized prove_memory call has stopped at the assertion
\* after earlier calls had already used the transcript and the random tape.
C3_Witness ==
    /\ op = "prove_memory"
    /\ pc = "panicked"
    /\ args.memory_trace = MAX_TRACE_SIZE + 1
    /\ Len(transcript.prover) > 0
    /\ Len(random_tape) > 0

\* C4: a prover-side operation that reaches an unimplemented step (prove,
\* prove_r1cs, the bytecode-loading step of prove_memory) returns an explicit
\* "not yet available" error value and never aborts.
C4_NotYetAvailable ==
    (/\ Ended
     /\ op \in {"prove", "prove_r1cs", "prove_memory"}
     /\ (op = "prove_memory" => args.memory_trace <= MAX_TRACE_SIZE))
    => (pc = "done" /\ result = Err("NotYetAvailable"))

\* The verifier-side sub-step that mirrors a prover-side sub-step.
Counterpart(step) ==
    CASE step = "ReadWriteMemory::prove_memory_checking" ->
             "ReadWriteMemory::verify_memory_checking"
      [] step = "Surge::prove" -> "Surge::verify"
      [] OTHER -> "none"

\* C5: the sub-steps handed the transcript by prove_memory are, position by
\* position, the counterparts of the sub-steps handed the transcript by
\* verify_memory (memory checking, then the timestamp-validity lookup).
C5_LockStep ==
    (/\ {"prove_memory", "verify_memory"} \subseteq ended
     /\ handed["verify_memory"] = <<"ReadWriteMemory::verify_memory_checking",
                                    "Surge::verify">>)
    => [j \in 1..Len(handed["prove_memory"]) |->
            Counterpart(handed["prove_memory"][j])] = handed["verify_memory"]

\* C6: verify_memory returns Ok only if both verify_memory_checking and
\* Surge::verify returned Ok; an Err of either makes it return an Err.
C6_BothChecks ==
    (op = "verify_memory" /\ pc = "done") =>
        /\ result.kind \in {"Ok", "Err"}
        /\ (result.kind = "Ok" => (mc_result.kind = "Ok" /\ surge_result.kind = "Ok"))
        /\ (mc_result.kind = "Err" => result.kind = "Err")
        /\ (surge_result.kind = "Err" => result.kind = "Err")

\* C6 witness: memory checking passed, the timestamp-validity lookup proof
\* was rejected, and verify_memory returned the error.
C6_Witness ==
    /\ op = "verify_memory"
    /\ pc = "done"
    /\ mc_result.kind = "Ok"
    /\ surge_result.kind = "Err"
    /\ result.kind = "Err"

\* C7: the pipeline entry point runs the stages in the order program-code,
\* memory, instruction-lookups, CPU-transition.
C7_StageOrder ==
    (op = "prove" /\ Ended) =>
        steps = <<"prove_program_code", "prove_memory",
                  "prove_instruction_lookups", "prove_r1cs">>

\* The proof-construction sub-steps.
ProofConstructionSteps ==
    {"InstructionLookups::prove_lookups", "PCPolys::prove_memory_checking",
     "ReadWriteMemory::prove_memory_checking"}

\* C8: no step of a verify operation changes the random tape, and every
\* change of the random tape is made by a proof-construction sub-step of a
\* prove operation, at the moment that sub-step runs.
C8_TapeProverOnly ==
    [][/\ (Side(op') = "verifier" => random_tape' = random_tape)
       /\ (random_tape' # random_tape =>
             \E step \in ProofConstructionSteps :
                /\ random_tape' = Append(random_tape, step)
                /\ steps' = Append(steps, step))]_vars

\* C8 witness: a verify operation has run its sub-step after the prover had
\* consumed the random tape.
C8_Witness ==
    /\ Side(op) = "verifier"
    /\ pc = "done"
    /\ Len(transcript.verifier) > 0
    /\ Len(random_tape) > 0

ProgramCodeSteps ==
    <<"PCPolys::new_program", "PCPolys::batch", "PCPolys::commit",
      "PCPolys::prove_memory_checking">>

\* C9: prove_program_code builds the polynomial set, batches it, commits to
\* the batch and then runs the memory-checking argument; the commitment it
\* returns is the one the returned proof was built against; the transcript
\* and the random tape change only once the commitment exists.
C9_ProgramCodeOrder ==
    /\ [](op = "prove_program_code" =>
            /\ Len(steps) <= Len(ProgramCodeSteps)
            /\ steps = SubSeq(ProgramCodeSteps, 1, Len(steps))
            /\ (pc = "done" =>
                  /\ steps = ProgramCodeSteps
                  /\ result.kind = "proof"
                  /\ result.commitment =
                        Commit(Batch(NewProgram(args.program, args.trace)))
                  /\ result.proof.against = result.commitment))
    /\ [][(op = "prove_program_code" /\ op' = op /\ ~Ended
           /\ (transcript' # transcript \/ random_tape' # random_tape))
          => commitments = Commit(batched_polys)]_vars

\* C9 witness: prove_program_code has returned its proof and commitment.
C9_Witness ==
    /\ op = "prove_program_code"
    /\ pc = "done"
    /\ result.kind = "proof"
    /\ Len(transcript.prover) > 0
    /\ Len(random_tape) > 0

C11_ShortCircuit ==
    op = "verify_memory" =>
        /\ (mc_result.kind = "Err" =>
              /\ pc = "done"
              /\ result = mc_result
              /\ result = Err("ReadWriteMemory::verify_memory_checking")
              /\ surge_result.kind = "none"
              /\ steps = <<"ReadWriteMemory::verify_memory_checking">>
              /\ handed["verify_memory"] = <<"ReadWriteMemory::verify_memory_checking">>)
        /\ ((pc = "vm_surge" \/ surge_result.kind # "none") => mc_result.kind = "Ok")
        /\ ((pc = "done" /\ mc_result.kind = "Ok") =>
              /\ result = surge_result
              /\ steps = <<"ReadWriteMemory::verify_memory_checking", "Surge::verify">>)

\* C11 witness: verify_memory has returned the memory-checking error after
\* earlier verify calls had already used the verifier's transcript.
C11_Witness ==
    /\ op = "verify_memory"
    /\ pc = "done"
    /\ mc_result.kind = "Err"
    /\ result.kind = "Err"
    /\ Len(transcript.verifier) > 1

\* C12: every prove operation that computes a commitment (prove_program_code,
\* prove_memory) hands it to its caller together with the proof, so that the
\* caller of the matching verify operation has the commitment the prover
\* computed.
C12_CommitmentShared ==
    (/\ Ended
     /\ op \in {"prove_program_code", "prove_memory"}
     /\ (op = "prove_memory" => args.memory_trace <= MAX_TRACE_SIZE))
    => /\ result.kind = "proof"
       /\ "commitment" \in DOMAIN result
       /\ result.commitment = Commit(Batch(polys))

\* The memory stage as written: the statements of prove_memory after line
\* 117 followed by calls of verify_memory.
NextMemoryStage ==
    \/ prove_memory_new
    \/ prove_memory_batch
    \/ prove_memory_commit
    \/ prove_memory_prove
    \/ prove_memory_lookups
    \/ prove_memory_surge
    \/ verify_memory_Call
    \/ verify_memory_checking
    \/ verify_memory_surge

SpecMemoryStage == InitMemoryBody /\ [][NextMemoryStage]_vars

====
